---- MODULE Spec2Model ----
(***************************************************************************)
(* Model of discord_serverless.py: the handler built by                    *)
(* discord_command_lambda / discord_command_webhook, the signature check   *)
(* discord_verify_signature and the dispatcher handle_discord_command.     *)
(*                                                                         *)
(* Python values are modelled as follows.                                  *)
(*   - a hex string (public key, signature header) is a sequence of        *)
(*     one-character strings, so that bytes.fromhex can be computed;       *)
(*   - every other str (timestamp, body, response body) is a TLA+ string;  *)
(*   - an Optional value (the result of dict.get) is <<>> for None and     *)
(*     <<v>> for v;                                                        *)
(*   - bytes are sequences of integers in 0..255;                          *)
(*   - the result of a call is [kind |-> "return", val |-> v] or           *)
(*     [kind |-> "raise", exc |-> name of the exception class].            *)
(***************************************************************************)
EXTENDS Integers, Sequences, FiniteSets, TLC

VARIABLES
    discord_key,    \* closure variable of decorator/handler (line 34)
    base_handler,   \* closure variable of handler (line 55)
    pc,             \* position of the running invocation of handler
    req,            \* how the current request was produced (sender side)
    args,           \* the event passed to handler (*args, args[0])
    signature,      \* extract_header("x-signature-ed25519", args)
    timestamp,      \* extract_header("x-signature-timestamp", args)
    raw_payload,    \* extract_raw_payload(args)
    is_valid,       \* local of handler (line 58)
    payload,        \* extract_payload(args) (line 68)
    verify_result,  \* what the call of discord_verify_signature produced
    outcome,        \* what the invocation of handler produced
    calls,          \* names of the functions called so far in this invocation
    handler_args,   \* arguments base_handler was called with in this invocation
    invocations     \* number of invocations started so far

vars == <<discord_key, base_handler, pc, req, args, signature, timestamp,
          raw_payload, is_valid, payload, verify_result, outcome, calls,
          handler_args, invocations>>

----------------------------------------------------------------------------
(* Bounds of the model *)

\* Number of bytes of a signature (crypto_sign_BYTES of the signature
\* scheme, scaled down).
SigBytes == 1

\* Number of invocations of one decorated handler that are followed.
MaxInvocations == 2

----------------------------------------------------------------------------
(* Python's str / bytes primitives *)

None == <<>>

Some(v) == <<v>>

Return(v) == [kind |-> "return", val |-> v]

Raise(e) == [kind |-> "raise", exc |-> e]

HexDigits == <<"0", "1", "2", "3", "4", "5", "6", "7",
               "8", "9", "a", "b", "c", "d", "e", "f">>

UpperDigits == <<"0", "1", "2", "3", "4", "5", "6", "7",
                 "8", "9", "A", "B", "C", "D", "E", "F">>

Whitespace == {" "}

\* Value of a hex digit, upper or lower case; 16 if the character is none.
DigitValue(c) ==
    IF \E i \in 1..16 : HexDigits[i] = c \/ UpperDigits[i] = c
    THEN (CHOOSE i \in 1..16 : HexDigits[i] = c \/ UpperDigits[i] = c) - 1
    ELSE 16

\* bytes.fromhex(s) from position i on: ASCII whitespace before a byte is
\* skipped, then two hex digits must follow each other.
RECURSIVE FromHexFrom(_, _)
FromHexFrom(s, i) ==
    IF i > Len(s) THEN Return(<<>>)
    ELSE IF s[i] \in Whitespace THEN FromHexFrom(s, i + 1)
    ELSE IF DigitValue(s[i]) >= 16 THEN Raise("ValueError")
    ELSE IF i + 1 > Len(s) THEN Raise("ValueError")
    ELSE IF DigitValue(s[i + 1]) >= 16 THEN Raise("ValueError")
    ELSE LET rest == FromHexFrom(s, i + 2)
         IN  IF rest.kind = "raise" THEN rest
             ELSE Return(<<16 * DigitValue(s[i]) + DigitValue(s[i + 1])>>
                         \o rest.val)

\* bytes.fromhex(x) of an Optional hex string: None is a TypeError.
BytesFromHex(x) ==
    IF x = None THEN Raise("TypeError") ELSE FromHexFrom(x[1], 1)

\* bytes.hex(): lower-case hex, two digits per byte.
RECURSIVE Hex(_)
Hex(bs) ==
    IF bs = <<>> THEN <<>>
    ELSE <<HexDigits[(bs[1] \div 16) + 1], HexDigits[(bs[1] % 16) + 1]>>
         \o Hex(Tail(bs))

\* str.upper() of a hex string.
Upper(s) ==
    [i \in 1..Len(s) |->
        IF DigitValue(s[i]) < 16 THEN UpperDigits[DigitValue(s[i]) + 1]
        ELSE s[i]]

----------------------------------------------------------------------------
(* What is sent: timestamps, bodies and their JSON values *)

Timestamps == {"", "1700000000", "1700000001"}

PingBody == "{\"type\": 1}"

HelloBody == "{\"type\": 2, \"data\": {\"name\": \"hello\"}}"

NopeBody == "{\"type\": 2, \"data\": {\"name\": \"nope\"}}"

BoomBody == "{\"type\": 2, \"data\": {\"name\": \"boom\"}}"

AutocompleteBody == "{\"type\": 4}"

Type99Body == "{\"type\": 99}"

NegativeBody == "{\"type\": -1}"

StrTypeBody == "{\"type\": \"1\"}"

NullTypeBody == "{\"type\": null}"

Bodies == {PingBody, HelloBody, NopeBody, BoomBody, AutocompleteBody,
           Type99Body, NegativeBody, StrTypeBody, NullTypeBody}

\* Python values of a payload's "type": an int, a str or None.
PyInt(n) == <<"int", n>>

PyStrVal(s) == <<"str", s>>

PyNone == <<"NoneType">>

\* Python's == on these values: values of different types are unequal.
PyEq(a, b) == a[1] = b[1] /\ (a[1] = "NoneType" \/ a[2] = b[2])

\* str(v), as an f-string formats v.
PyFormat(v) ==
    IF v[1] = "int" THEN ToString(v[2])
    ELSE IF v[1] = "str" THEN v[2]
    ELSE "None"

\* json.dumps of a str made of characters that need no escape.
JsonDumpsStr(s) == "\"" \o s \o "\""

\* json.loads of the bodies above.
JsonLoads(body) ==
    CASE body = PingBody -> [type |-> PyInt(1)]
      [] body = HelloBody -> [type |-> PyInt(2), data |-> [name |-> "hello"]]
      [] body = NopeBody -> [type |-> PyInt(2), data |-> [name |-> "nope"]]
      [] body = BoomBody -> [type |-> PyInt(2), data |-> [name |-> "boom"]]
      [] body = AutocompleteBody -> [type |-> PyInt(4)]
      [] body = Type99Body -> [type |-> PyInt(99)]
      [] body = NegativeBody -> [type |-> PyInt(0 - 1)]
      [] body = StrTypeBody -> [type |-> PyStrVal("1")]
      [] body = NullTypeBody -> [type |-> PyNone]

----------------------------------------------------------------------------
(* The signature scheme behind nacl.signing.VerifyKey, as an ideal scheme: *)
(* every (key, message) has one signature of SigBytes bytes, and different *)
(* (key, message) pairs have different signatures.                         *)

\* The application's public key and the key of somebody else, hex-encoded.
DiscordKey == <<"0", "1">>

OtherKey == <<"0", "2">>

Keys == {DiscordKey, OtherKey}

Messages == {t \o b : t \in Timestamps, b \in Bodies}

RECURSIVE Enumerate(_)
Enumerate(S) ==
    IF S = {} THEN <<>>
    ELSE LET x == CHOOSE y \in S : TRUE IN <<x>> \o Enumerate(S \ {x})

MessageList == Enumerate(Messages)

MessageIndex(m) == CHOOSE i \in 1..Len(MessageList) : MessageList[i] = m

SignatureCode(key_bytes, m) ==
    (key_bytes[1] - 1) * Len(MessageList) + MessageIndex(m)

\* The signature of message m under the private key matching key_bytes.
Sign(key_bytes, m) ==
    [i \in 1..SigBytes |->
        (SignatureCode(key_bytes, m) \div (256 ^ (SigBytes - i))) % 256]

\* VerifyKey(key_bytes).verify(message, signature=sig): a signature of the
\* wrong size is a ValueError, a signature that does not match is a
\* BadSignatureError.
VerifyKeyVerify(key_bytes, message, sig) ==
    IF Len(sig) # SigBytes THEN Raise("ValueError")
    ELSE IF message \in Messages /\ sig = Sign(key_bytes, message)
    THEN Return(message)
    ELSE Raise("BadSignatureError")

----------------------------------------------------------------------------
(* discord_verify_signature *)

\* A mutation of Message: the timestamp is left out of the signed message.
MessageWithoutTimestamp(ts, raw) ==
    IF ts = None \/ raw = None THEN Raise("TypeError")
    ELSE Return(raw[1])

\* message = timestamp + raw_payload, on Optional operands: None + str is a
\* TypeError.
Message(ts, raw) ==
    IF ts = None \/ raw = None THEN Raise("TypeError")
    ELSE Return(ts[1] \o raw[1])

\* The signature bytes handed to verify.
SignatureBytes(sig) == BytesFromHex(sig)

\* The exceptions the try statement catches.
Caught == {"BadSignatureError"}

discord_verify_signature(public_key, sig, ts, raw) ==
    LET message == Message(ts, raw)
        key == BytesFromHex(Some(public_key))
        sig_bytes == SignatureBytes(sig)
    IN  IF message.kind = "raise" THEN message
        ELSE IF key.kind = "raise" THEN key
        ELSE IF sig_bytes.kind = "raise" THEN sig_bytes
        ELSE LET v == VerifyKeyVerify(key.val, message.val, sig_bytes.val)
             IN  IF v.kind = "return" THEN Return(TRUE)
                 ELSE IF v.exc \in Caught THEN Return(FALSE)
                 ELSE v

----------------------------------------------------------------------------
(* Response builders and handle_discord_command *)

JsonHeaders == "Content-Type" :> "application/json"

discord_command_response(interaction_callback_type, content) ==
    [statusCode |-> 200,
     headers |-> JsonHeaders,
     body |-> "{\"type\": " \o ToString(interaction_callback_type)
              \o ", \"data\": {\"content\": " \o JsonDumpsStr(content)
              \o "}}"]

discord_unknown_command_response(command) ==
    [statusCode |-> 400,
     body |-> JsonDumpsStr("Unknown command: " \o command)]

\* A mutation of PingResponse: the Content-Type header is left out.
PingResponseWithoutHeaders == [statusCode |-> 200, body |-> "{ \"type\": 1 }"]

PingResponse ==
    [statusCode |-> 200, headers |-> JsonHeaders, body |-> "{ \"type\": 1 }"]

\* A mutation of UnhandledResponse: the message does not name the type.
UnhandledResponseWithoutType(command_type) ==
    [statusCode |-> 400,
     headers |-> JsonHeaders,
     body |-> JsonDumpsStr("unhandled request type")]

UnhandledResponse(command_type) ==
    [statusCode |-> 400,
     headers |-> JsonHeaders,
     body |-> JsonDumpsStr("unhandled request type: "
                           \o PyFormat(command_type))]

InvalidSignatureResponse ==
    [statusCode |-> 401, body |-> "Invalid request signature"]

\* The functions a caller may decorate: one that answers every command the
\* same way, one that answers by command name with the response builders,
\* and one that fails on the command "boom".
BaseHandlers == {"static", "commands", "faulty"}

CallBaseHandler(h, p) ==
    CASE h = "static" -> Return([statusCode |-> 200, body |-> "ok"])
      [] h = "commands" ->
            IF p.data.name = "hello"
            THEN Return(discord_command_response(4, "Hello, world"))
            ELSE Return(discord_unknown_command_response(p.data.name))
      [] h = "faulty" ->
            IF p.data.name = "boom" THEN Raise("RuntimeError")
            ELSE Return([statusCode |-> 200, body |-> "ok"])

\* A mutation of handle_discord_command: base_handler gets the command's
\* data only, not the full payload.
handle_discord_command_data_only(p, h) ==
    LET command_type == p.type
    IN  IF PyEq(command_type, PyInt(1))
        THEN [outcome |-> Return(PingResponse), handler_args |-> <<>>]
        ELSE IF PyEq(command_type, PyInt(2))
        THEN [outcome |-> CallBaseHandler(h, [data |-> p.data]),
              handler_args |-> <<[data |-> p.data]>>]
        ELSE [outcome |-> Return(UnhandledResponse(command_type)),
              handler_args |-> <<>>]

\* A mutation of handle_discord_command: a failure of base_handler is
\* caught and answered with an error envelope.
handle_discord_command_catching(p, h) ==
    LET command_type == p.type
    IN  IF PyEq(command_type, PyInt(1))
        THEN [outcome |-> Return(PingResponse), handler_args |-> <<>>]
        ELSE IF PyEq(command_type, PyInt(2))
        THEN [outcome |->
                IF CallBaseHandler(h, p).kind = "raise"
                THEN Return(UnhandledResponse(command_type))
                ELSE CallBaseHandler(h, p),
              handler_args |-> <<p>>]
        ELSE [outcome |-> Return(UnhandledResponse(command_type)),
              handler_args |-> <<>>]

\* handle_discord_command(payload, base_handler): what it produces and the
\* arguments of the calls it made to base_handler.
handle_discord_command(p, h) ==
    LET command_type == p.type
    IN  IF PyEq(command_type, PyInt(1))
        THEN [outcome |-> Return(PingResponse), handler_args |-> <<>>]
        ELSE IF PyEq(command_type, PyInt(2))
        THEN [outcome |-> CallBaseHandler(h, p), handler_args |-> <<p>>]
        ELSE [outcome |-> Return(UnhandledResponse(command_type)),
              handler_args |-> <<>>]

----------------------------------------------------------------------------
(* The adapters of discord_command_lambda *)

\* dict.get(name)
DictGet(d, name) == IF name \in DOMAIN d THEN Some(d[name]) ELSE None

extract_header(name, event) == DictGet(event.headers, name)

extract_raw_payload(event) == event.body

extract_payload(event) == JsonLoads(event.body)

----------------------------------------------------------------------------
(* The requests that are sent to the handler *)

\* The signature header is the signer's lower-case hex signature ("exact")
\* or a variation of it; the header names are in lower case unless the form
\* says otherwise.
SignatureForms == {"exact", "upper", "space", "bad_digit", "odd", "short",
                   "long", "empty", "flipped"}

HeaderForms == {"no_signature", "no_timestamp", "canonical_names",
                "upper_names"}

Requests ==
    { [signer |-> k, ts |-> t, body |-> b, form |-> f,
       sent_ts |-> t, sent_body |-> b] :
        k \in Keys, t \in Timestamps, b \in Bodies,
        f \in SignatureForms \cup HeaderForms }
    \cup
    { [signer |-> k, ts |-> t, body |-> b, form |-> "exact",
       sent_ts |-> t2, sent_body |-> b] :
        k \in Keys, t \in Timestamps, b \in Bodies, t2 \in Timestamps }
    \cup
    { [signer |-> k, ts |-> t, body |-> b, form |-> "exact",
       sent_ts |-> t, sent_body |-> b2] :
        k \in Keys, t \in Timestamps, b \in Bodies, b2 \in Bodies }

NoRequest ==
    [signer |-> DiscordKey, ts |-> "", body |-> "", form |-> "none",
     sent_ts |-> "", sent_body |-> ""]

\* The signer's signature of what it signed, as lower-case hex.
SignedHex(r) == Hex(Sign(BytesFromHex(Some(r.signer)).val, r.ts \o r.body))

FlipLast(h) ==
    [h EXCEPT ![Len(h)] = HexDigits[((DigitValue(h[Len(h)]) + 1) % 16) + 1]]

SignatureHeader(r) ==
    LET h == SignedHex(r)
    IN  CASE r.form = "upper" -> Upper(h)
          [] r.form = "space" -> h \o <<" ">>
          [] r.form = "bad_digit" -> [h EXCEPT ![1] = "g"]
          [] r.form = "odd" -> SubSeq(h, 1, Len(h) - 1)
          [] r.form = "short" -> SubSeq(h, 1, Len(h) - 2)
          [] r.form = "long" -> h \o <<"0", "0">>
          [] r.form = "empty" -> <<>>
          [] r.form = "flipped" -> FlipLast(h)
          [] OTHER -> h

SignatureName(r) ==
    CASE r.form = "canonical_names" -> "X-Signature-Ed25519"
      [] r.form = "upper_names" -> "X-SIGNATURE-ED25519"
      [] OTHER -> "x-signature-ed25519"

TimestampName(r) ==
    CASE r.form = "canonical_names" -> "X-Signature-Timestamp"
      [] r.form = "upper_names" -> "X-SIGNATURE-TIMESTAMP"
      [] OTHER -> "x-signature-timestamp"

\* The event the runtime passes to the handler for request r.
Event(r) ==
    [headers |->
        CASE r.form = "no_signature" -> TimestampName(r) :> r.sent_ts
          [] r.form = "no_timestamp" -> SignatureName(r) :> SignatureHeader(r)
          [] OTHER -> (SignatureName(r) :> SignatureHeader(r))
                      @@ (TimestampName(r) :> r.sent_ts),
     body |-> r.sent_body]

NoEvent == [headers |-> <<>>, body |-> ""]

NoOutcome == [kind |-> "none"]

----------------------------------------------------------------------------
(* The handler built by discord_command_webhook(...)(base_handler) *)

Init ==
    /\ discord_key = DiscordKey
    /\ base_handler \in BaseHandlers
    /\ pc = "idle"
    /\ req = NoRequest
    /\ args = NoEvent
    /\ signature = None
    /\ timestamp = None
    /\ raw_payload = None
    /\ is_valid = FALSE
    /\ payload = None
    /\ verify_result = NoOutcome
    /\ outcome = NoOutcome
    /\ calls = <<>>
    /\ handler_args = <<>>
    /\ invocations = 0

\* The runtime calls handler(event, context).
Invoke ==
    /\ pc = "idle"
    /\ invocations < MaxInvocations
    /\ \E r \in Requests :
        /\ req' = r
        /\ args' = Event(r)
    /\ pc' = "extract"
    /\ invocations' = invocations + 1
    /\ UNCHANGED <<discord_key, base_handler, signature, timestamp,
                   raw_payload, is_valid, payload, verify_result, outcome,
                   calls, handler_args>>

\* The arguments of the call of discord_verify_signature are evaluated.
ExtractArgs ==
    /\ pc = "extract"
    /\ signature' = extract_header("x-signature-ed25519", args)
    /\ timestamp' = extract_header("x-signature-timestamp", args)
    /\ raw_payload' = Some(extract_raw_payload(args))
    /\ calls' = calls \o <<"extract_header", "extract_header",
                           "extract_raw_payload">>
    /\ pc' = "verify"
    /\ UNCHANGED <<discord_key, base_handler, req, args, is_valid, payload,
                   verify_result, outcome, handler_args, invocations>>

\* is_valid = discord_verify_signature(...); an exception leaves handler.
Verify ==
    /\ pc = "verify"
    /\ LET r == discord_verify_signature(discord_key, signature, timestamp,
                                         raw_payload)
       IN  /\ verify_result' = r
           /\ IF r.kind = "raise"
              THEN /\ outcome' = r
                   /\ pc' = "done"
                   /\ UNCHANGED is_valid
              ELSE /\ is_valid' = r.val
                   /\ pc' = "check"
                   /\ UNCHANGED outcome
    /\ calls' = Append(calls, "discord_verify_signature")
    /\ UNCHANGED <<discord_key, base_handler, req, args, signature,
                   timestamp, raw_payload, payload, handler_args,
                   invocations>>

\* A mutation of Reject: a rejected request also replaces the configured key.
RejectAndReplaceKey ==
    /\ pc = "check"
    /\ ~is_valid
    /\ outcome' = Return(InvalidSignatureResponse)
    /\ pc' = "done"
    /\ discord_key' = OtherKey
    /\ UNCHANGED <<base_handler, req, args, signature,
                   timestamp, raw_payload, is_valid, payload, verify_result,
                   calls, handler_args, invocations>>

\* if not is_valid: return the 401 envelope.
Reject ==
    /\ pc = "check"
    /\ ~is_valid
    /\ outcome' = Return(InvalidSignatureResponse)
    /\ pc' = "done"
    /\ UNCHANGED <<discord_key, base_handler, req, args, signature,
                   timestamp, raw_payload, is_valid, payload, verify_result,
                   calls, handler_args, invocations>>

\* A mutation of ExtractPayload: the payload is extracted whatever is_valid.
ExtractPayloadUnchecked ==
    /\ pc = "check"
    /\ payload' = Some(extract_payload(args))
    /\ calls' = Append(calls, "extract_payload")
    /\ pc' = "dispatch"
    /\ UNCHANGED <<discord_key, base_handler, req, args, signature,
                   timestamp, raw_payload, is_valid, verify_result, outcome,
                   handler_args, invocations>>

\* The argument extract_payload(args) of handle_discord_command is evaluated.
ExtractPayload ==
    /\ pc = "check"
    /\ is_valid
    /\ payload' = Some(extract_payload(args))
    /\ calls' = Append(calls, "extract_payload")
    /\ pc' = "dispatch"
    /\ UNCHANGED <<discord_key, base_handler, req, args, signature,
                   timestamp, raw_payload, is_valid, verify_result, outcome,
                   handler_args, invocations>>

\* return handle_discord_command(payload, base_handler)
Dispatch ==
    /\ pc = "dispatch"
    /\ LET r == handle_discord_command(payload[1], base_handler)
       IN  /\ outcome' = r.outcome
           /\ handler_args' = r.handler_args
           /\ calls' = calls \o <<"handle_discord_command">>
                       \o [i \in 1..Len(r.handler_args) |-> "base_handler"]
    /\ pc' = "done"
    /\ UNCHANGED <<discord_key, base_handler, req, args, signature,
                   timestamp, raw_payload, is_valid, payload, verify_result,
                   invocations>>

\* The invocation is over: its frame is discarded, the closure remains.
Finish ==
    /\ pc = "done"
    /\ pc' = "idle"
    /\ req' = NoRequest
    /\ args' = NoEvent
    /\ signature' = None
    /\ timestamp' = None
    /\ raw_payload' = None
    /\ is_valid' = FALSE
    /\ payload' = None
    /\ verify_result' = NoOutcome
    /\ outcome' = NoOutcome
    /\ calls' = <<>>
    /\ handler_args' = <<>>
    /\ UNCHANGED <<discord_key, base_handler, invocations>>

Next ==
    \/ Invoke
    \/ ExtractArgs
    \/ Verify
    \/ Reject
    \/ ExtractPayload
    \/ Dispatch
    \/ Finish

Spec == Init /\ [][Next]_vars

----------------------------------------------------------------------------
(* Properties *)

\* The number of calls of function f in this invocation.
CallCount(f) == Cardinality({i \in 1..Len(calls) : calls[i] = f})

\* The payload the handler extracted has the int n as its type.
PayloadTypeIs(n) == payload # None /\ PyEq(payload[1].type, PyInt(n))

\* The request was signed with the private key of the configured key.
SignedByDiscord == req.signer = discord_key

\* The request carries both headers under their lower-case names and the
\* signed timestamp and body.
Untampered == req.sent_ts = req.ts /\ req.sent_body = req.body

\* The response of handler to request r as its first invocation.
FirstResponse(r) ==
    LET e == Event(r)
        v == discord_verify_signature(DiscordKey,
                 extract_header("x-signature-ed25519", e),
                 extract_header("x-signature-timestamp", e),
                 Some(extract_raw_payload(e)))
    IN  IF v.kind = "raise" THEN v
        ELSE IF ~v.val THEN Return(InvalidSignatureResponse)
        ELSE handle_discord_command(extract_payload(e), base_handler).outcome

\* C1: extract_payload, handle_discord_command and base_handler are called
\* only after discord_verify_signature was called and returned True; no
\* payload is extracted or handed to base_handler otherwise.
C1_VerifiedBeforeDispatch ==
    /\ \A i \in 1..Len(calls) :
          calls[i] \in {"extract_payload", "handle_discord_command",
                        "base_handler"}
          => /\ \E j \in 1..(i - 1) : calls[j] = "discord_verify_signature"
             /\ verify_result = Return(TRUE)
    /\ (payload # None \/ handler_args # <<>>) => verify_result = Return(TRUE)

C1_Witness ==
    /\ pc = "done"
    /\ handler_args # <<>>
    /\ calls = <<"extract_header", "extract_header", "extract_raw_payload",
                 "discord_verify_signature", "extract_payload",
                 "handle_discord_command", "base_handler">>

\* C2: whenever signature verification does not succeed, the handler
\* returns the 401 envelope "Invalid request signature" and never raises.
C2_FailureIsAlways401 ==
    (pc = "done" /\ verify_result # Return(TRUE))
    => outcome = Return(InvalidSignatureResponse)

\* C3: discord_verify_signature never raises when it is given a signature
\* string and a timestamp string, whatever they are (malformed hex, wrong
\* length, empty): it returns.
C3_VerifyNeverRaises ==
    (signature # None /\ timestamp # None /\ verify_result.kind # "none")
    => verify_result.kind = "return"

\* The signature argument is hex for the signature of the concatenation of
\* the timestamp and raw_payload arguments, under the private key of the
\* configured key.
SignatureIsValid ==
    /\ signature # None
    /\ timestamp # None
    /\ BytesFromHex(signature)
         = Return(Sign(BytesFromHex(Some(discord_key)).val,
                       timestamp[1] \o raw_payload[1]))

\* The signature header was changed alone: its string is not the signer's.
SignatureChangedAlone ==
    /\ SignedByDiscord
    /\ Untampered
    /\ req.form \in SignatureForms
    /\ signature # Some(SignedHex(req))

\* The timestamp or the body was changed alone.
MessageChangedAlone ==
    /\ SignedByDiscord
    /\ req.form = "exact"
    /\ ~Untampered

\* C4 as claimed: discord_verify_signature returns True iff the signature
\* is valid for timestamp + raw_payload, and changing the signature, the
\* timestamp or the raw_payload alone of a validly signed request makes it
\* return False.
C4_AnyChangeReturnsFalse ==
    verify_result.kind # "none"
    => /\ (verify_result = Return(TRUE)) <=> SignatureIsValid
       /\ (SignatureChangedAlone \/ MessageChangedAlone)
          => verify_result = Return(FALSE)

\* C4 as amended: discord_verify_signature returns True iff the signature
\* string is hex for the valid signature of timestamp + raw_payload;
\* changing the timestamp or the raw_payload alone makes it return False;
\* changing the signature string alone makes it return True when the new
\* string is hex for the same bytes (letter case, whitespace), return False
\* when it is hex for other bytes of the signature's size, and raise
\* otherwise.
C4_ChangeOfSignedContent ==
    verify_result.kind # "none"
    => /\ (verify_result = Return(TRUE)) <=> SignatureIsValid
       /\ MessageChangedAlone => verify_result = Return(FALSE)
       /\ SignatureChangedAlone
          => LET b == BytesFromHex(signature)
             IN  CASE b.kind = "raise" -> verify_result.kind = "raise"
                   [] b.kind = "return" /\ Len(b.val) # SigBytes ->
                         verify_result.kind = "raise"
                   [] b.kind = "return" /\ Len(b.val) = SigBytes ->
                         verify_result
                           = Return(b.val = BytesFromHex(
                                               Some(SignedHex(req))).val)

C4_Witness ==
    /\ MessageChangedAlone
    /\ req.sent_ts # req.ts
    /\ req.ts # ""
    /\ req.sent_ts # ""
    /\ verify_result = Return(FALSE)

\* C5 as claimed: for a payload of type 1 the envelope has statusCode 200,
\* Content-Type application/json and body exactly {"type": 1}, and
\* base_handler is not called.
C5_PingBodyCompact ==
    (pc = "done" /\ PayloadTypeIs(1))
    => /\ outcome = Return([statusCode |-> 200,
                            headers |-> "Content-Type" :> "application/json",
                            body |-> "{\"type\": 1}"])
       /\ handler_args = <<>>
       /\ CallCount("base_handler") = 0

\* C5 as amended: for a payload of type 1 the envelope has statusCode 200,
\* Content-Type application/json and body exactly { "type": 1 } (with a
\* space inside each brace), and base_handler is not called.
C5_PingAcknowledged ==
    (pc = "done" /\ PayloadTypeIs(1))
    => /\ outcome = Return([statusCode |-> 200,
                            headers |-> "Content-Type" :> "application/json",
                            body |-> "{ \"type\": 1 }"])
       /\ handler_args = <<>>
       /\ CallCount("base_handler") = 0

C5_Witness ==
    /\ pc = "done"
    /\ PayloadTypeIs(1)
    /\ CallCount("handle_discord_command") = 1
    /\ outcome.kind = "return"
    /\ outcome.val.statusCode = 200

\* C6: for a payload of type 2, base_handler is called exactly once, with
\* the full payload of the request, and what it returns is what
\* handle_discord_command and the handler return.
C6_CommandDelegated ==
    (pc = "done" /\ PayloadTypeIs(2))
    => /\ CallCount("base_handler") = 1
       /\ handler_args = <<JsonLoads(req.sent_body)>>
       /\ outcome = CallBaseHandler(base_handler, JsonLoads(req.sent_body))

C6_Witness ==
    /\ pc = "done"
    /\ PayloadTypeIs(2)
    /\ base_handler = "commands"
    /\ req.sent_body = NopeBody
    /\ outcome = Return([statusCode |-> 400,
                         body |-> "\"Unknown command: nope\""])

\* C7: for a payload whose type is neither 1 nor 2, the envelope has
\* statusCode 400 and a JSON body that names the type, and base_handler is
\* not called.
C7_UnhandledTypeRejected ==
    (pc = "done" /\ payload # None /\ ~PayloadTypeIs(1) /\ ~PayloadTypeIs(2))
    => /\ outcome.kind = "return"
       /\ outcome.val.statusCode = 400
       /\ outcome.val.body
            = "\"unhandled request type: " \o PyFormat(payload[1].type)
              \o "\""
       /\ req.sent_body = Type99Body
          => outcome.val.body = "\"unhandled request type: 99\""
       /\ handler_args = <<>>
       /\ CallCount("base_handler") = 0

C7_Witness ==
    /\ pc = "done"
    /\ payload # None
    /\ req.sent_body = Type99Body
    /\ outcome.kind = "return"
    /\ outcome.val.statusCode = 400

\* C8: when base_handler raises on a payload of type 2, the handler raises
\* the same exception: it is not caught, retried or turned into an
\* envelope.
C8_HandlerFailurePropagates ==
    (/\ pc = "done"
     /\ PayloadTypeIs(2)
     /\ CallBaseHandler(base_handler, payload[1]).kind = "raise")
    => /\ outcome = CallBaseHandler(base_handler, payload[1])
       /\ CallCount("base_handler") = 1

C8_Witness ==
    /\ pc = "done"
    /\ base_handler = "faulty"
    /\ req.sent_body = BoomBody
    /\ outcome = Raise("RuntimeError")

\* C9: a validly signed request is accepted whatever the letter case of
\* the names of the two signature headers.
C9_HeaderNamesCaseInsensitive ==
    (/\ pc = "done"
     /\ SignedByDiscord
     /\ Untampered
     /\ req.form \in {"exact", "canonical_names", "upper_names"})
    => /\ verify_result = Return(TRUE)
       /\ outcome = handle_discord_command(JsonLoads(req.sent_body),
                                           base_handler).outcome

\* C10: after any sequence of invocations the configured key is the one
\* the handler was built with, and the response to a request is the one
\* the same request gets as first invocation.
C10_NoStateAcrossInvocations ==
    /\ discord_key = DiscordKey
    /\ pc = "done" => outcome = FirstResponse(req)

C10_Witness ==
    /\ invocations >= 2
    /\ pc = "done"
    /\ SignedByDiscord
    /\ req.form = "exact"
    /\ Untampered
    /\ outcome.kind = "return"

====
